---- MODULE Spec2Model ----
(***************************************************************************)
(* Model of discord_stocks.py: a command string is parsed by parse_query,  *)
(* the price history is fetched by request_data and the chart is drawn by  *)
(* create_chart.  Strings are sequences of one-character strings, so that  *)
(* strip, split, upper and int act on characters as they do in Python.     *)
(***************************************************************************)
EXTENDS Integers, Sequences, FiniteSets, TLC

VARIABLES input, pc, result, status, data, err, gets, csvReads, renderCalls,
          axLines, i, labels, loopEntered, imageWritten, printed

vars == <<input, pc, result, status, data, err, gets, csvReads, renderCalls,
          axLines, i, labels, loopEntered, imageWritten, printed>>

(* Largest number of moving-average words in a generated command. *)
MaxMav == 2

-----------------------------------------------------------------------------
(* Characters and string primitives of Python's str.                        *)

Whitespace == {" ", "\t", "\n", "\r"}

Digits == <<"0", "1", "2", "3", "4", "5", "6", "7", "8", "9">>

Lower == <<"a", "b", "c", "d", "e", "f", "g", "h", "i", "j", "k", "l", "m",
           "n", "o", "p", "q", "r", "s", "t", "u", "v", "w", "x", "y", "z">>

Upper == <<"A", "B", "C", "D", "E", "F", "G", "H", "I", "J", "K", "L", "M",
           "N", "O", "P", "Q", "R", "S", "T", "U", "V", "W", "X", "Y", "Z">>

IsDigit(c) == \E d \in 1..Len(Digits) : Digits[d] = c

DigitValue(c) == (CHOOSE d \in 1..Len(Digits) : Digits[d] = c) - 1

IsLower(c) == \E l \in 1..Len(Lower) : Lower[l] = c

UpperChar(c) ==
    IF IsLower(c) THEN Upper[CHOOSE l \in 1..Len(Lower) : Lower[l] = c] ELSE c

(* str.upper() *)
StrUpper(s) == [k \in 1..Len(s) |-> UpperChar(s[k])]

RECURSIVE LStrip(_)
LStrip(s) ==
    IF s # <<>> /\ s[1] \in Whitespace THEN LStrip(Tail(s)) ELSE s

RECURSIVE RStrip(_)
RStrip(s) ==
    IF s # <<>> /\ s[Len(s)] \in Whitespace
    THEN RStrip(SubSeq(s, 1, Len(s) - 1)) ELSE s

(* str.strip() *)
Strip(s) == RStrip(LStrip(s))

(* The separator handed to str.split on line 19. *)
SplitSep == " "

RECURSIVE SplitOn(_, _)
SplitOn(s, sep) ==
    IF \A k \in 1..Len(s) : s[k] # sep
    THEN <<s>>
    ELSE LET at == CHOOSE k \in 1..Len(s) :
                       s[k] = sep /\ \A j \in 1..(k - 1) : s[j] # sep
         IN  <<SubSeq(s, 1, at - 1)>> \o SplitOn(SubSeq(s, at + 1, Len(s)), sep)

(* query_str.strip().split(' ') *)
QueryTokens(query_str) == SplitOn(Strip(query_str), SplitSep)

(* int(value) succeeds: optional surrounding whitespace, an optional sign,  *)
(* then digits, with single underscores allowed between digits.             *)
IntBody(tok) ==
    LET s == Strip(tok)
    IN  IF s # <<>> /\ s[1] \in {"+", "-"} THEN Tail(s) ELSE s

IntOk(tok) ==
    LET b == IntBody(tok)
    IN  /\ b # <<>>
        /\ IsDigit(b[1])
        /\ IsDigit(b[Len(b)])
        /\ \A k \in 1..Len(b) : IsDigit(b[k]) \/ b[k] = "_"
        /\ \A k \in 1..(Len(b) - 1) : ~(b[k] = "_" /\ b[k + 1] = "_")

RECURSIVE DecValue(_)
DecValue(b) ==
    IF b = <<>> THEN 0
    ELSE LET c == b[Len(b)]
             rest == SubSeq(b, 1, Len(b) - 1)
         IN  IF c = "_" THEN DecValue(rest)
             ELSE 10 * DecValue(rest) + DigitValue(c)

(* int(value), for a token int accepts *)
IntValue(tok) ==
    LET s == Strip(tok)
    IN  IF s[1] = "-" THEN 0 - DecValue(IntBody(tok)) ELSE DecValue(IntBody(tok))

-----------------------------------------------------------------------------
(* parse_query                                                              *)

Sentinel == <<"&", "s", "t", "o", "c", "k">>

valid_ranges ==
    { <<"1", "d">>,
      <<"5", "d">>,
      <<"1", "m", "o">>,
      <<"3", "m", "o">>,
      <<"6", "m", "o">>,
      <<"1", "y">>,
      <<"2", "y">>,
      <<"5", "y">>,
      <<"1", "0", "y">>,
      <<"y", "t", "d">>,
      <<"m", "a", "x">> }

valid_intervals ==
    { <<"1", "m">>,
      <<"2", "m">>,
      <<"5", "m">>,
      <<"1", "5", "m">>,
      <<"3", "0", "m">>,
      <<"6", "0", "m">>,
      <<"9", "0", "m">>,
      <<"1", "h">>,
      <<"1", "d">>,
      <<"5", "d">>,
      <<"1", "w", "k">>,
      <<"1", "m", "o">>,
      <<"3", "m", "o">> }

valid_types ==
    { <<"c", "a", "n", "d", "l", "e">>,
      <<"l", "i", "n", "e">> }

TypeLine == <<"l", "i", "n", "e">>

NoRequest == [ticker |-> <<>>, range |-> <<>>, interval |-> <<>>,
              type |-> <<>>, mav |-> <<>>, built |-> FALSE]

TypeError(msg) == [kind |-> "TypeError", msg |-> msg, request |-> NoRequest]

IndexError == [kind |-> "IndexError", msg |-> "list index out of range",
               request |-> NoRequest]

ValueError == [kind |-> "ValueError", msg |-> "invalid literal for int()",
               request |-> NoRequest]

Returned(req) == [kind |-> "ok", msg |-> "", request |-> req]

(* The mutation of IsSentinel: the sentinel is not compared at all. *)
IsSentinelAny(tok) == TRUE

(* query_tokens[0] == '&stock' *)
IsSentinel(tok) == tok = Sentinel

(* The mutation of InputChecks: the interval is looked at before the range. *)
InputChecksIntervalFirst(qt) ==
    IF ~IsSentinel(qt[1]) THEN "usage"
    ELSE IF Len(qt) < 4 THEN "IndexError"
    ELSE IF qt[4] \notin valid_intervals THEN "intervals"
    ELSE IF qt[3] \notin valid_ranges THEN "ranges"
    ELSE IF Len(qt) < 5 THEN "IndexError"
    ELSE IF qt[5] \notin valid_types THEN "types"
    ELSE "pass"

(* The if/elif chain of lines 22-29; indexing past the end of the list      *)
(* raises IndexError.  Python indexes from 0, TLA+ from 1.                  *)
InputChecks(qt) ==
    IF ~IsSentinel(qt[1]) THEN "usage"
    ELSE IF Len(qt) < 3 THEN "IndexError"
    ELSE IF qt[3] \notin valid_ranges THEN "ranges"
    ELSE IF Len(qt) < 4 THEN "IndexError"
    ELSE IF qt[4] \notin valid_intervals THEN "intervals"
    ELSE IF Len(qt) < 5 THEN "IndexError"
    ELSE IF qt[5] \notin valid_types THEN "types"
    ELSE "pass"

(* The mutation of MavValid: only the first value is tried. *)
MavValidFirstOnly(mav) == mav = <<>> \/ IntOk(mav[1])

(* The loop of lines 32-37 finds no value that int rejects. *)
MavValid(mav) == \A k \in 1..Len(mav) : IntOk(mav[k])

(* tuple(int(x) for x in query_tokens[5:]) *)
MavTuple(mav) == [k \in 1..Len(mav) |-> IntValue(mav[k])]

(* The mutation of Ticker: the token is passed through as typed. *)
TickerVerbatim(tok) == tok

(* query_tokens[1].upper() *)
Ticker(tok) == StrUpper(tok)

parse_query(query_str) ==
    LET query_tokens == QueryTokens(query_str)
        checks == InputChecks(query_tokens)
        mav == SubSeq(query_tokens, 6, Len(query_tokens))
    IN  IF checks = "IndexError" THEN IndexError
        ELSE IF checks # "pass" THEN TypeError(checks)
        ELSE IF ~MavValid(mav) THEN TypeError("mav")
        ELSE IF \E k \in 1..Len(mav) : ~IntOk(mav[k]) THEN ValueError
        ELSE Returned([ticker |-> Ticker(query_tokens[2]),
                       range |-> query_tokens[3],
                       interval |-> query_tokens[4],
                       type |-> query_tokens[5],
                       mav |-> MavTuple(mav),
                       built |-> TRUE])

-----------------------------------------------------------------------------
(* request_data and create_chart                                            *)

NotFoundStatus == 404

(* The status codes a server may answer with. *)
Statuses == {200, NotFoundStatus, 500}

(* The mutation of IsNotFound: the status is never taken for a 404. *)
IsNotFoundNever(code) == FALSE

(* response.status_code == 404 *)
IsNotFound(code) == code = NotFoundStatus

(* Number of colours in mavcolors. *)
PaletteLen == 5

(* ax.lines after mpf.plot returned: one line per moving average, in the    *)
(* order of tokens['mav'], and for a line chart the price line after them.  *)
(* A line object is named by the window it averages, or "price".            *)
AxLines(type, mav) ==
    LET mavLines == [k \in 1..Len(mav) |-> [kind |-> "mav", window |-> mav[k], slot |-> k - 1]]
    IN  IF type = TypeLine
        THEN Append(mavLines, [kind |-> "price", window |-> 0, slot |-> Len(mav)])
        ELSE mavLines

(* The mutation of SkipsLine: no line object is skipped. *)
SkipsNoLine(type, idx, lines) == FALSE

(* tokens['type'] == 'line' and i == len(ax.lines) - 1 *)
SkipsLine(type, idx, lines) == type = TypeLine /\ idx = Len(lines) - 1

(* MA_string and the arguments of ax.text for loop index idx (from 0). *)
Label(mav, lines, idx) ==
    [window |-> mav[idx + 1],
     line |-> lines[idx + 1],
     row |-> idx,
     color |-> idx % PaletteLen]

(* The mutation of AfterParse: the run goes on whatever parse_query did. *)
AfterParseAlways(r) == "request_data"

(* Lines 139-141: an exception raised by parse_query ends the run. *)
AfterParse(r) == IF r.kind = "ok" THEN "request_data" ELSE "failed"

-----------------------------------------------------------------------------
(* The command strings the run is started with.                             *)

Word0 == { Sentinel, <<"s", "t", "o", "c", "k">> }

Word1 == { <<"s", "p", "y">>, <<"A", "a">>, <<>> }

Word2 == { <<"2", "y">>, <<"1", "d">>, <<"1", "w", "k">> }

Word3 == { <<"1", "w", "k">>, <<"1", "d">>, <<"2", "y">> }

Word4 == { <<"c", "a", "n", "d", "l", "e">>, <<"l", "i", "n", "e">>, <<"b", "a", "r">> }

WordMav == { <<"5">>, <<"0">>, <<"-", "3">>, <<"x">> }

WordsAt(p) ==
    IF p = 1 THEN Word0
    ELSE IF p = 2 THEN Word1
    ELSE IF p = 3 THEN Word2
    ELSE IF p = 4 THEN Word3
    ELSE IF p = 5 THEN Word4
    ELSE WordMav

RECURSIVE WordListsOf(_)
WordListsOf(n) ==
    IF n = 0 THEN {<<>>}
    ELSE {Append(ws, w) : ws \in WordListsOf(n - 1), w \in WordsAt(n)}

WordLists == UNION {WordListsOf(n) : n \in 0..(5 + MaxMav)}

(* What separates the words: single spaces, except at most one place that   *)
(* holds two spaces or a tab; or whitespace around the whole command.       *)
Layouts(n) ==
    {[at |-> 0, kind |-> "plain"], [at |-> 0, kind |-> "padded"]}
      \cup {[at |-> g, kind |-> k] : g \in 1..(n - 1), k \in {"double", "tab"}}

Gap(g, layout) ==
    IF layout.at # g THEN <<" ">>
    ELSE IF layout.kind = "double" THEN <<" ", " ">>
    ELSE <<"\t">>

RECURSIVE JoinFrom(_, _, _)
JoinFrom(ws, p, layout) ==
    IF p > Len(ws) THEN <<>>
    ELSE IF p = Len(ws) THEN ws[p]
    ELSE ws[p] \o Gap(p, layout) \o JoinFrom(ws, p + 1, layout)

Command(ws, layout) ==
    IF layout.kind = "padded"
    THEN <<" ">> \o JoinFrom(ws, 1, layout) \o <<"\t", " ">>
    ELSE JoinFrom(ws, 1, layout)

Commands == UNION { {Command(ws, layout) : layout \in Layouts(Len(ws))} : ws \in WordLists }

-----------------------------------------------------------------------------
(* The run of lines 138-143.                                                *)

NotParsed == [kind |-> "none", msg |-> "", request |-> NoRequest]

Init ==
    /\ input \in Commands
    /\ pc = "parse_query"
    /\ result = NotParsed
    /\ status = 0
    /\ data = "none"
    /\ err = "none"
    /\ gets = 0
    /\ csvReads = 0
    /\ renderCalls = 0
    /\ axLines = <<>>
    /\ i = 0
    /\ labels = <<>>
    /\ loopEntered = FALSE
    /\ imageWritten = FALSE
    /\ printed = 0

(* tokens = parse_query(input_str) *)
ParseQuery ==
    /\ pc = "parse_query"
    /\ result' = parse_query(input)
    /\ pc' = AfterParse(result')
    /\ err' = IF result'.kind = "ok" THEN "none" ELSE result'.kind
    /\ UNCHANGED <<input, status, data, gets, csvReads, renderCalls, axLines,
                   i, labels, loopEntered, imageWritten, printed>>

(* request_data up to the status check: the GET either raises in the        *)
(* transport or brings a response, and a 404 response raises.               *)
RequestGet ==
    /\ pc = "request_data"
    /\ gets' = gets + 1
    /\ \E code \in Statuses, delivered \in BOOLEAN :
         IF ~delivered
         THEN /\ err' = "RequestException"
              /\ pc' = "failed"
              /\ UNCHANGED status
         ELSE /\ status' = code
              /\ IF IsNotFound(code)
                 THEN err' = "Error 404" /\ pc' = "failed"
                 ELSE err' = err /\ pc' = "read_csv"
    /\ UNCHANGED <<input, result, data, csvReads, renderCalls, axLines, i,
                   labels, loopEntered, imageWritten, printed>>

(* request_data from line 66: the body is read as CSV, which may raise.     *)
ReadCsv ==
    /\ pc = "read_csv"
    /\ csvReads' = csvReads + 1
    /\ \E parsed \in BOOLEAN :
         IF parsed
         THEN data' = "frame" /\ pc' = "create_chart" /\ err' = err
         ELSE data' = data /\ pc' = "failed" /\ err' = "ParserError"
    /\ UNCHANGED <<input, result, status, gets, renderCalls, axLines, i,
                   labels, loopEntered, imageWritten, printed>>

(* create_chart up to the title: mpf.plot either raises or returns the axes. *)
Plot ==
    /\ pc = "create_chart"
    /\ renderCalls' = renderCalls + 1
    /\ \E plotted \in BOOLEAN :
         IF plotted
         THEN /\ axLines' = AxLines(result.request.type, result.request.mav)
              /\ pc' = "labels"
              /\ err' = err
         ELSE /\ axLines' = axLines
              /\ pc' = "failed"
              /\ err' = "PlotError"
    /\ i' = 0
    /\ UNCHANGED <<input, result, status, data, gets, csvReads, labels,
                   loopEntered, imageWritten, printed>>

(* One pass of the label code of lines 121-130: the test of tokens['mav'],  *)
(* the end of the enumeration, or one iteration of the loop body.           *)
LabelStep ==
    /\ pc = "labels"
    /\ LET mav == result.request.mav
           type == result.request.type
       IN  IF mav = <<>> \/ i >= Len(axLines)
           THEN /\ pc' = "savefig"
                /\ UNCHANGED <<i, labels, loopEntered, err>>
           ELSE /\ loopEntered' = TRUE
                /\ IF SkipsLine(type, i, axLines)
                   THEN /\ i' = i + 1
                        /\ UNCHANGED <<pc, labels, err>>
                   ELSE IF i >= Len(mav)
                   THEN /\ pc' = "failed"
                        /\ err' = "IndexError"
                        /\ UNCHANGED <<i, labels>>
                   ELSE /\ labels' = Append(labels, Label(mav, axLines, i))
                        /\ i' = i + 1
                        /\ UNCHANGED <<pc, err>>
    /\ UNCHANGED <<input, result, status, data, gets, csvReads, renderCalls,
                   axLines, imageWritten, printed>>

(* plt.savefig('stock.png', ...) writes the image or raises. *)
SaveFig ==
    /\ pc = "savefig"
    /\ \E written \in BOOLEAN :
         /\ imageWritten' = written
         /\ pc' = IF written THEN "print" ELSE "failed"
         /\ err' = IF written THEN err ELSE "SaveError"
    /\ UNCHANGED <<input, result, status, data, gets, csvReads, renderCalls,
                   axLines, i, labels, loopEntered, printed>>

(* print('Complete') *)
PrintComplete ==
    /\ pc = "print"
    /\ printed' = printed + 1
    /\ pc' = "done"
    /\ UNCHANGED <<input, result, status, data, err, gets, csvReads,
                   renderCalls, axLines, i, labels, loopEntered, imageWritten>>

Next ==
    \/ ParseQuery
    \/ RequestGet
    \/ ReadCsv
    \/ Plot
    \/ LabelStep
    \/ SaveFig
    \/ PrintComplete

Spec == Init /\ [][Next]_vars

-----------------------------------------------------------------------------
(* Properties.                                                              *)

Parsed == pc # "parse_query"

Tokens == QueryTokens(input)

RulesPass ==
    /\ Len(Tokens) >= 5
    /\ Tokens[1] = Sentinel
    /\ Tokens[3] \in valid_ranges
    /\ Tokens[4] \in valid_intervals
    /\ Tokens[5] \in valid_types

(* C1: a command whose first space-separated token, after stripping, is not *)
(* '&stock' -- the empty command and short commands included -- fails with  *)
(* the usage TypeError, and the run issues no GET and renders nothing.      *)
C1_NoSentinelIsUsageError ==
    (Parsed /\ Tokens[1] # Sentinel) =>
        /\ result = TypeError("usage")
        /\ pc = "failed"
        /\ err = "TypeError"
        /\ gets = 0
        /\ renderCalls = 0
        /\ ~imageWritten

C1_Witness ==
    /\ pc = "failed"
    /\ Tokens[1] # Sentinel
    /\ Tokens[1] # <<>>
    /\ Len(Tokens) < 5
    /\ result = TypeError("usage")

(* C2: with at least five tokens the reported error is that of the first    *)
(* violated rule in the order sentinel, range, interval, type, moving       *)
(* averages, whatever the later tokens are.                                 *)
C2_FirstViolatedRuleReported ==
    (Parsed /\ Len(Tokens) >= 5) =>
        /\ Tokens[1] # Sentinel => result = TypeError("usage")
        /\ (Tokens[1] = Sentinel /\ Tokens[3] \notin valid_ranges)
              => result = TypeError("ranges")
        /\ (Tokens[1] = Sentinel /\ Tokens[3] \in valid_ranges
              /\ Tokens[4] \notin valid_intervals)
              => result = TypeError("intervals")
        /\ (Tokens[1] = Sentinel /\ Tokens[3] \in valid_ranges
              /\ Tokens[4] \in valid_intervals /\ Tokens[5] \notin valid_types)
              => result = TypeError("types")
        /\ result = TypeError("mav") => RulesPass

C2_Witness ==
    /\ Parsed
    /\ Len(Tokens) > 5
    /\ Tokens[1] = Sentinel
    /\ Tokens[3] \notin valid_ranges
    /\ Tokens[4] \notin valid_intervals
    /\ Tokens[5] \notin valid_types
    /\ ~IntOk(Tokens[6])
    /\ result = TypeError("ranges")

(* C3: parse_query has exactly two outcomes for every command string: a     *)
(* complete request, or a TypeError with no request.                        *)
C3_OnlyRequestOrTypeError ==
    Parsed =>
        \/ result.kind = "ok" /\ result.request.built
        \/ result.kind = "TypeError" /\ result.request = NoRequest

(* C4: when rules 1-4 pass and some token from position 5 on is not an      *)
(* integer, wherever it sits, parse_query fails with the moving-average     *)
(* TypeError and builds no request.                                         *)
C4_OneBadWindowRejectsAll ==
    (Parsed /\ RulesPass /\ \E k \in 6..Len(Tokens) : ~IntOk(Tokens[k])) =>
        /\ result = TypeError("mav")
        /\ ~result.request.built
        /\ gets = 0

C4_Witness ==
    /\ Parsed
    /\ RulesPass
    /\ Len(Tokens) = 7
    /\ IntOk(Tokens[6])
    /\ ~IntOk(Tokens[7])
    /\ result = TypeError("mav")

(* C5: an accepted command with tokens t0..tk returns ticker = upper(t1),   *)
(* range = t2, interval = t3, type = t4 and the integer values of t5..tk in *)
(* the same order; duplicates, zero and negative values are kept.           *)
C5_FieldsMapFromTokens ==
    result.kind = "ok" =>
        /\ Len(Tokens) >= 5
        /\ result.request.ticker = StrUpper(Tokens[2])
        /\ result.request.range = Tokens[3]
        /\ result.request.interval = Tokens[4]
        /\ result.request.type = Tokens[5]
        /\ Len(result.request.mav) = Len(Tokens) - 5
        /\ \A k \in 1..Len(result.request.mav) :
               /\ IntOk(Tokens[5 + k])
               /\ result.request.mav[k] = IntValue(Tokens[5 + k])

C5_Witness ==
    /\ result.kind = "ok"
    /\ Tokens[2] = <<"s", "p", "y">>
    /\ result.request.ticker = <<"S", "P", "Y">>
    /\ result.request.range = <<"2", "y">>
    /\ result.request.interval = <<"1", "w", "k">>
    /\ result.request.mav = <<-3, -3>>

(* C6: every returned request has a non-empty ticker that equals its own    *)
(* upper-casing.                                                            *)
C6_TickerNonEmptyUpper ==
    result.kind = "ok" =>
        /\ result.request.ticker # <<>>
        /\ result.request.ticker = StrUpper(result.request.ticker)

(* C7: a 404 answer makes request_data raise at once: the body is not read  *)
(* as CSV, create_chart is not called, no image is written and nothing is   *)
(* printed.                                                                 *)
C7_NotFoundStopsRun ==
    status = NotFoundStatus =>
        /\ pc = "failed"
        /\ err = "Error 404"
        /\ csvReads = 0
        /\ data = "none"
        /\ renderCalls = 0
        /\ ~imageWritten
        /\ printed = 0

C7_Witness ==
    /\ status = NotFoundStatus
    /\ gets = 1
    /\ pc = "failed"

(* C8: with n moving averages and n line objects (candle) or n+1 (line, the *)
(* price line last), the label loop emits exactly n labels, label i reads   *)
(* movingAverages[i] and line object i, the price line gets no label, no    *)
(* index is out of range, and for n = 0 the loop is not entered.            *)
C8_OneLabelPerMovingAverage ==
    renderCalls > 0 =>
        LET mav == result.request.mav
            n == Len(mav)
        IN  /\ err # "IndexError"
            /\ Len(labels) <= n
            /\ \A k \in 1..Len(labels) :
                   /\ labels[k].window = mav[k]
                   /\ labels[k].row = k - 1
                   /\ labels[k].line = axLines[k]
                   /\ labels[k].line.kind = "mav"
                   /\ labels[k].line.slot = k - 1
            /\ pc \in {"savefig", "print", "done"} => Len(labels) = n
            /\ n = 0 => ~loopEntered

C8_Witness ==
    /\ pc = "done"
    /\ result.request.type = TypeLine
    /\ Len(result.request.mav) = 2
    /\ Len(axLines) = 3
    /\ Len(labels) = 2
    /\ loopEntered

(* C9: the stages run in the order parse, fetch, render, each at most once  *)
(* and only after the one before succeeded: one GET when parsing succeeded  *)
(* and none otherwise, the image only after plot and labels, 'Complete' at  *)
(* most once, after the image, and never in a run where a stage failed.     *)
C9_StagesInOrder ==
    /\ gets <= 1 /\ csvReads <= 1 /\ renderCalls <= 1 /\ printed <= 1
    /\ gets = 1 => result.kind = "ok"
    /\ (Parsed /\ result.kind # "ok") =>
           gets = 0 /\ renderCalls = 0 /\ pc = "failed"
    /\ (result.kind = "ok" /\ pc # "request_data") => gets = 1
    /\ csvReads = 1 => gets = 1 /\ status \in Statuses \ {NotFoundStatus}
    /\ renderCalls = 1 => csvReads = 1 /\ data = "frame"
    /\ imageWritten =>
           /\ renderCalls = 1
           /\ pc \in {"print", "done"}
           /\ Len(labels) = Len(result.request.mav)
    /\ printed = 1 => imageWritten /\ pc = "done"
    /\ err # "none" <=> pc = "failed"
    /\ pc = "failed" => printed = 0
    /\ pc = "done" => printed = 1

C9_Witness ==
    /\ pc = "done"
    /\ gets = 1
    /\ renderCalls = 1
    /\ imageWritten
    /\ printed = 1
    /\ err = "none"

(* The non-whitespace tokens of a string, and the string that holds them    *)
(* one space apart.                                                         *)
RECURSIVE WhitespaceTokens(_, _)
WhitespaceTokens(s, word) ==
    IF s = <<>> THEN (IF word = <<>> THEN <<>> ELSE <<word>>)
    ELSE IF s[1] \in Whitespace
         THEN (IF word = <<>> THEN <<>> ELSE <<word>>)
                  \o WhitespaceTokens(Tail(s), <<>>)
         ELSE WhitespaceTokens(Tail(s), Append(word, s[1]))

RECURSIVE SpaceJoin(_)
SpaceJoin(ws) ==
    IF ws = <<>> THEN <<>>
    ELSE IF Len(ws) = 1 THEN ws[1]
    ELSE ws[1] \o <<" ">> \o SpaceJoin(Tail(ws))

SingleSpaced(s) == SpaceJoin(WhitespaceTokens(s, <<>>))

(* C10: two commands with the same non-whitespace tokens, differing only in *)
(* the whitespace between them, have the same outcome; so every command has *)
(* the outcome of its single-spaced form.                                   *)
C10_WhitespaceInsensitive ==
    Parsed => result = parse_query(SingleSpaced(input))
====
